---------------------------- MODULE Spec2Model ----------------------------
(* Model of the conversion tools of file_converter_server.py and of the   *)
(* publisher of upload_to_server.py.  Every tool is one action; the body  *)
(* of a tool is an operator that threads a footprint record through the   *)
(* statements of the handler, with Python's try/except rendered by the    *)
(* combinators Then and Catch.  The outcomes of the external              *)
(* collaborators (download, base64 decode, capability, move, publisher,   *)
(* rmtree, os.remove) are inputs of the action.                           *)
EXTENDS Integers, Sequences, FiniteSets, TLC

VARIABLES clock, prevOut, last, fix

vars == <<clock, prevOut, last, fix>>

(* ---------------------------- bounds ---------------------------------- *)
MaxClock == 1

\* The longest text made of arbitrary characters, and the longest payload
\* wrapped in an envelope.
MaxLen == 3

MaxPayload == 2

(* ------------------------- program constants -------------------------- *)
OUTPUT_DIR == "/root/files"

ValidFormats == {"jpg", "jpeg", "png", "webp", "gif", "bmp", "tiff"}

(* ------------------------- result dictionaries ------------------------ *)
GetDownloadUrl(filename) == [host |-> "8.156.74.79", port |-> 8001, name |-> filename]

Basename(path) == [t |-> path.t, ext |-> path.ext]

OutputPath(t, ext) == [dir |-> OUTPUT_DIR, t |-> t, ext |-> ext]

Failure(msg) == [success |-> FALSE, error |-> msg]

Success(path) ==
    [success |-> TRUE, output_file |-> path, download_url |-> GetDownloadUrl(Basename(path))]

\* The error response built with format_success_response's "data" key.
FormatErrorResponseData(error_msg) == [success |-> FALSE, data |-> error_msg]

FormatErrorResponse(error_msg) == [success |-> FALSE, error |-> error_msg]

\* json.dumps with SafeJSONEncoder never fails on a dictionary of strings and
\* booleans, so the response is handed back as it came.
DebugJsonResponse(response) == response

(* ------------------- footprint of one request ------------------------ *)
\* ev     : the external steps performed, in order, each with its outcome
\* dirs   : the working directories made by mkdtemp, each with its state and
\*          the number of rmtree calls made on it
\* loose  : the temp files made outside any working directory
\* tmpOut : the capability's output file exists inside the working directory
\* out    : the files this request left in OUTPUT_DIR
\* route  : the capabilities convert_file handed the request to, each with
\*          the output_format it was given ("none" when none is passed)
S0 == [ev |-> <<>>, dirs |-> <<>>, loose |-> <<>>, tmpOut |-> FALSE, out |-> {}, route |-> <<>>]

Log(s, step, outcome) == [s EXCEPT !.ev = Append(@, <<step, outcome>>)]

CountEv(s, step) == Cardinality({i \in DOMAIN s.ev : s.ev[i][1] = step})

\* A statement either falls through ("go"), returns a dictionary ("ret") or
\* raises ("exc").
Go(s) == [s |-> s, k |-> "go", v |-> Failure("none")]
Return(s, v) == [s |-> s, k |-> "ret", v |-> v]
Raise(s, msg) == [s |-> s, k |-> "exc", v |-> Failure(msg)]

Then(r, F(_)) == IF r.k = "go" THEN F(r.s) ELSE r

\* try: r  except Exception as e: H(s, str(e))
Catch(r, H(_, _)) == IF r.k = "exc" THEN H(r.s, r.v.error) ELSE r


(* --------------------------- external steps --------------------------- *)
IsUrl(input_file) == input_file \in {"http://h/f", "https://h/f"}

\* tempfile.mkdtemp(): a fresh working directory.
Mkdtemp(s) ==
    Log([s EXCEPT !.dirs = Append(@, [st |-> "live", rm |-> 0])], "mkdtemp", "ok")

\* shutil.rmtree(temp_dir): raises when the removal fails or the directory is
\* not there; the directory and everything in it is gone otherwise.  env.rm
\* lists the outcome of the request's first and second call.
Rmtree(s, d, env) ==
    LET n == CountEv(s, "rmtree") + 1
        rm == IF s.dirs[d].st # "live" THEN "nodir" ELSE env.rm[IF n > Len(env.rm) THEN Len(env.rm) ELSE n]
        s1 == Log([s EXCEPT !.dirs[d].rm = @ + 1], "rmtree", rm)
    IN  IF rm = "ok"
        THEN Go([s1 EXCEPT !.dirs[d].st = "gone", !.tmpOut = FALSE])
        ELSE Raise(s1, "rmtree")

\* download_url_to_tempfile: the temp file is created (delete=False) before the
\* request is made, so it exists whether or not the download succeeds.
DownloadUrlToTempfile(s, dl) ==
    LET s1 == Log([s EXCEPT !.loose = Append(@, [st |-> "live", tracked |-> FALSE])],
                  "download", dl)
    IN  IF dl = "ok" THEN Go(s1) ELSE Raise(s1, "download")

\* temp_files.append(input_file)
TrackTempFile(s, f) == [s EXCEPT !.loose[f].tracked = TRUE]

\* for f in temp_files: os.remove(f)
RECURSIVE RemoveTempFiles(_, _, _)
RemoveTempFiles(s, temp_files, rmf) ==
    IF temp_files = <<>> THEN Go(s)
    ELSE LET f == Head(temp_files)
             s1 == Log(s, "remove", rmf)
         IN  IF rmf = "ok" /\ s.loose[f].st = "live"
             THEN RemoveTempFiles([s1 EXCEPT !.loose[f].st = "gone"], Tail(temp_files), rmf)
             ELSE Raise(s1, "remove")

\* shutil.rmtree(temp_dir) followed by the loop over temp_files.
RmtreeAndRemove(s, d, temp_files, env) ==
    Then(Rmtree(s, d, env), LAMBDA s1: RemoveTempFiles(s1, temp_files, env.rmf))

\* base64.b64decode and the write of the decoded bytes to temp_input_file.
DecodeBase64(s, dec) ==
    IF dec = "ok" THEN Go(Log(s, "decode", dec)) ELSE Raise(Log(s, "decode", dec), "decode")

\* shutil.move(temp_output_file, output_file): raises when the source is
\* missing or the move fails.
Move(s, mv, path) ==
    LET s1 == Log(s, "move", IF s.tmpOut THEN mv ELSE "nosrc")
    IN  IF s.tmpOut /\ mv = "ok"
        THEN Go([s1 EXCEPT !.tmpOut = FALSE, !.out = @ \cup {path}])
        ELSE Raise(s1, "move")

(* ------------------------------ docx2pdf ------------------------------ *)
\* The capability run a second time after it raised.
DocxCapabilityRetried(s, env) ==
    LET s1 == Log(s, "capability", env.cap)
    IN  CASE env.cap = "ok" -> Go([s1 EXCEPT !.tmpOut = TRUE])
          [] env.cap = "noout" /\ env.windows -> Go(s1)
          [] OTHER -> Raise(Log(s1, "capability", env.cap), "capability")

\* Windows: docx2pdf.convert writes temp_output_file, nothing checks it.
\* Elsewhere: libreoffice writes <temp_dir>/<base>.pdf, a missing file raises,
\* and the file is renamed to temp_output_file.
DocxCapability(s, env) ==
    LET s1 == Log(s, "capability", env.cap)
    IN  CASE env.cap = "ok" -> Go([s1 EXCEPT !.tmpOut = TRUE])
          [] env.cap = "noout" /\ env.windows -> Go(s1)
          [] OTHER -> Raise(s1, "capability")

ConvertDocxToPdf(s0, input_file, file_content_base64, env, t) ==
    LET isUrl == IsUrl(input_file)
        output_file == OutputPath(t, "pdf")
        downloaded ==
            IF isUrl
            THEN Catch(Then(DownloadUrlToTempfile(s0, env.dl),
                            LAMBDA s: Go(TrackTempFile(s, Len(s.loose)))),
                       LAMBDA s, e: Return(s, Failure("Error downloading file from URL")))
            ELSE Go(s0)
        body ==
            Then(downloaded, LAMBDA s1:
              LET temp_files == IF isUrl THEN <<Len(s1.loose)>> ELSE <<>>
              IN  IF input_file = "none" /\ file_content_base64 = "none"
                  THEN Return(s1, Failure("You must provide either input_file or file_content_base64"))
                  ELSE
                    LET s2 == Mkdtemp(s1)
                        d == Len(s2.dirs)
                        resolved ==
                            IF file_content_base64 # "none"
                            THEN Catch(DecodeBase64(s2, env.dec),
                                       LAMBDA s, e:
                                         Then(Rmtree(s, d, env), LAMBDA s3:
                                           Return(s3, Failure("Error processing input file content"))))
                            ELSE Go(s2)
                        converted ==
                            Then(resolved, LAMBDA s3:
                              Catch(DocxCapability(s3, env),
                                    LAMBDA s, e:
                                      Then(RmtreeAndRemove(s, d, temp_files, env), LAMBDA s4:
                                        Return(s4, Failure("Error converting DOCX to PDF")))))
                        moved ==
                            Then(converted, LAMBDA s4:
                              Catch(Move(s4, env.mv, output_file),
                                    LAMBDA s, e:
                                      Then(RmtreeAndRemove(s, d, temp_files, env), LAMBDA s5:
                                        Return(s5, Failure("Error moving output file")))))
                    IN  Then(moved, LAMBDA s5:
                          Then(RmtreeAndRemove(s5, d, temp_files, env), LAMBDA s6:
                            Return(s6, Success(output_file)))))
    IN  Catch(body, LAMBDA s, e:
          Return(s, DebugJsonResponse(FormatErrorResponse("Error converting DOCX to PDF"))))

(* ------------------------- upload_to_server.py ------------------------ *)
\* upload_to_static_server without the remote stat: True once put returned.
UploadTrustingPut(up) ==
    CASE up \in {"nolocal", "unreadable", "putfail"} -> "false"
      [] up = "connfail" -> "raise"
      [] OTHER -> "true"

\* upload_to_static_server: False when the local file is missing or cannot be
\* opened, an exception when the transport cannot connect (outside its try),
\* False when put fails or the remote stat does not find the file, True
\* otherwise.
UploadToStaticServer(up) ==
    CASE up \in {"nolocal", "unreadable", "putfail", "statmissing"} -> "false"
      [] up = "connfail" -> "raise"
      [] OTHER -> "true"

\* The calls upload_to_static_server makes before it returns or raises, with
\* their outcomes: os.path.exists, open, Transport.connect, sftp.put and
\* sftp.stat.
UploadSteps(up) ==
    LET local == <<(<<"exists", "true">>), (<<"open", "ok">>)>>
        connected == Append(local, <<"connect", "ok">>)
    IN  CASE up = "nolocal" -> <<(<<"exists", "false">>)>>
          [] up = "unreadable" -> <<(<<"exists", "true">>), (<<"open", "fail">>)>>
          [] up = "connfail" -> Append(local, <<"connect", "fail">>)
          [] up = "putfail" -> Append(connected, <<"put", "fail">>)
          [] up = "statmissing" -> connected \o <<(<<"put", "ok">>), (<<"stat", "missing">>)>>
          [] OTHER -> connected \o <<(<<"put", "ok">>), (<<"stat", "ok">>)>>

\* The upload block with its two early returns left out.
PublishIgnoringFailure(s, up) ==
    Go(Log([s EXCEPT !.ev = @ \o UploadSteps(up)], "publish", UploadToStaticServer(up)))

\* The upload block shared by pdf2docx, html2docx and markdown2docx: a False
\* result and an exception both return a failure dictionary at once.
Publish(s, up) ==
    LET upload_success == UploadToStaticServer(up)
        s1 == Log([s EXCEPT !.ev = @ \o UploadSteps(up)], "publish", upload_success)
    IN  CASE upload_success = "true" -> Go(s1)
          [] upload_success = "false" -> Return(s1, Failure("auto upload to static server failed"))
          [] OTHER -> Return(s1, Failure("auto upload to static server raised"))

(* ------------------------------ pdf2docx ------------------------------ *)
\* pdf2docx.Converter: raises, or returns with or without temp_output_file.
PdfCapability(s, cap) ==
    LET s1 == Log(s, "capability", cap)
    IN  CASE cap = "ok" -> Go([s1 EXCEPT !.tmpOut = TRUE])
          [] cap = "noout" -> Go(s1)
          [] OTHER -> Raise(s1, "capability")

\* Line 935 reads temp_html_file, a name this function never binds.
UnboundTempHtmlFile(s) == Raise(Log(s, "nameerror", "temp_html_file"), "name 'temp_html_file' is not defined")

ConvertPdfToDocx(s0, input_file, file_content_base64, env, t) ==
    LET isUrl == IsUrl(input_file)
        output_file == OutputPath(t, "docx")
        downloaded ==
            IF isUrl
            THEN Catch(Then(DownloadUrlToTempfile(s0, env.dl),
                            LAMBDA s: Go(TrackTempFile(s, Len(s.loose)))),
                       LAMBDA s, e: Return(s, Failure("Error downloading file from URL")))
            ELSE Go(s0)
        body ==
            Then(downloaded, LAMBDA s1:
              LET temp_files == IF isUrl THEN <<Len(s1.loose)>> ELSE <<>>
              IN  IF input_file = "none" /\ file_content_base64 = "none"
                  THEN Return(s1, Failure("You must provide either input_file or file_content_base64"))
                  ELSE
                    LET s2 == Mkdtemp(s1)
                        d == Len(s2.dirs)
                        resolved ==
                            IF file_content_base64 # "none"
                            THEN Catch(DecodeBase64(s2, env.dec),
                                       LAMBDA s, e:
                                         Then(Rmtree(s, d, env), LAMBDA s3:
                                           Return(s3, Failure("Error processing input file content"))))
                            ELSE Go(s2)
                        converted ==
                            Then(resolved, LAMBDA s3:
                              Catch(Then(PdfCapability(s3, env.cap), LAMBDA s4:
                                      IF ~s4.tmpOut
                                      THEN Then(RmtreeAndRemove(s4, d, temp_files, env), LAMBDA s5:
                                             Return(s5, Failure("PDF conversion produced no output file")))
                                      ELSE Go(s4)),
                                    LAMBDA s, e:
                                      Then(RmtreeAndRemove(s, d, temp_files, env), LAMBDA s4:
                                        Return(s4, Failure("Error converting PDF to DOCX")))))
                        moved ==
                            Then(converted, LAMBDA s4:
                              Catch(Then(Move(s4, env.mv, output_file), LAMBDA s5: Publish(s5, env.up)),
                                    LAMBDA s, e:
                                      Then(RmtreeAndRemove(s, d, temp_files, env), LAMBDA s5:
                                        Return(s5, Failure("Error moving output file")))))
                    IN  Then(moved, LAMBDA s5:
                          Then(UnboundTempHtmlFile(s5), LAMBDA s6:
                            Then(RmtreeAndRemove(s6, d, temp_files, env), LAMBDA s7:
                              Return(s7, Success(output_file))))))
    IN  Catch(body, LAMBDA s, e:
          Return(s, DebugJsonResponse(FormatErrorResponse("Error converting PDF to DOCX"))))

(* ---------------------------- convert_image --------------------------- *)
\* str.lower() on the format names the requests use.
Lower(fmt) ==
    CASE fmt = "PNG" -> "png"
      [] fmt = "DOCX" -> "docx"
      [] fmt = "PDF" -> "pdf"
      [] fmt = "MD" -> "md"
      [] OTHER -> fmt

\* PIL: Image.open / img.save raise, or save returns with or without the file.
ImageCapability(s, cap) ==
    LET s1 == Log(s, "capability", cap)
    IN  CASE cap = "ok" -> Go([s1 EXCEPT !.tmpOut = TRUE])
          [] cap = "noout" -> Go(s1)
          [] OTHER -> Raise(s1, "capability")

ConvertImage(s0, input_file, file_content_base64, output_format, input_format, env, t) ==
    LET isUrl == IsUrl(input_file)
        downloaded ==
            IF isUrl
            THEN Catch(Then(DownloadUrlToTempfile(s0, env.dl),
                            LAMBDA s: Go(TrackTempFile(s, Len(s.loose)))),
                       LAMBDA s, e: Return(s, Failure("Error downloading image from URL")))
            ELSE Go(s0)
        body ==
            Then(downloaded, LAMBDA s1:
              LET temp_files == IF isUrl THEN <<Len(s1.loose)>> ELSE <<>>
              IN  IF input_file = "none" /\ file_content_base64 = "none"
                  THEN Return(s1, Failure("You must provide either input_file or file_content_base64"))
                  ELSE IF output_format = "none" \/ Lower(output_format) \notin ValidFormats
                  THEN Return(s1, Failure("Unsupported output format"))
                  ELSE
                    LET s2 == Mkdtemp(s1)
                        d == Len(s2.dirs)
                        output_file == OutputPath(t, Lower(output_format))
                        resolved ==
                            IF file_content_base64 # "none"
                            THEN IF input_format = "none"
                                 THEN Then(Rmtree(s2, d, env), LAMBDA s3:
                                        Return(s3, Failure("input_format is required when using file_content_base64")))
                                 ELSE Catch(DecodeBase64(s2, env.dec),
                                            LAMBDA s, e:
                                              Then(RmtreeAndRemove(s, d, temp_files, env), LAMBDA s3:
                                                Return(s3, Failure("Error processing input file content"))))
                            ELSE Go(s2)
                        converted ==
                            Then(resolved, LAMBDA s3:
                              Catch(ImageCapability(s3, env.cap),
                                    LAMBDA s, e:
                                      Then(RmtreeAndRemove(s, d, temp_files, env), LAMBDA s4:
                                        Return(s4, Failure("Error during image conversion")))))
                        moved ==
                            Then(converted, LAMBDA s4:
                              Catch(Move(s4, env.mv, output_file),
                                    LAMBDA s, e:
                                      Then(RmtreeAndRemove(s, d, temp_files, env), LAMBDA s5:
                                        Return(s5, Failure("Error moving output file")))))
                    IN  Then(moved, LAMBDA s5:
                          Then(RmtreeAndRemove(s5, d, temp_files, env), LAMBDA s6:
                            Return(s6, Success(output_file)))))
    IN  Catch(body, LAMBDA s, e:
          Return(s, DebugJsonResponse(FormatErrorResponse("Error converting image"))))

(* ------------------------------ excel2csv ----------------------------- *)
\* input_file.lower().endswith((".xls", ".xlsx")); a downloaded file carries
\* the suffix ".xlsx".
EndsWithExcel(input_file) == input_file \in {"/data/f.xlsx", "/data/f.xls"}

\* pandas read_excel and to_csv, which writes straight into OUTPUT_DIR.
ExcelCapability(s, cap, output_file) ==
    LET s1 == Log(s, "capability", cap)
    IN  CASE cap = "ok" -> Go([s1 EXCEPT !.out = @ \cup {output_file}])
          [] cap = "noout" -> Go(s1)
          [] OTHER -> Raise(s1, "capability")

ConvertExcelToCsv(s0, input_file, env, t) ==
    LET isUrl == IsUrl(input_file)
        output_file == OutputPath(t, "csv")
        downloaded ==
            IF isUrl
            THEN Catch(Then(DownloadUrlToTempfile(s0, env.dl),
                            LAMBDA s: Go(TrackTempFile(s, Len(s.loose)))),
                       LAMBDA s, e: Return(s, Failure("Error downloading excel from URL")))
            ELSE Go(s0)
        body ==
            Then(downloaded, LAMBDA s1:
              LET temp_files == IF isUrl THEN <<Len(s1.loose)>> ELSE <<>>
              IN  IF ~isUrl /\ ~EndsWithExcel(input_file)
                  THEN Return(s1, Failure("File must be an Excel file (.xls or .xlsx)"))
                  ELSE Then(ExcelCapability(s1, env.cap, output_file), LAMBDA s2:
                         Then(RemoveTempFiles(s2, temp_files, env.rmf), LAMBDA s3:
                           Return(s3, Success(output_file)))))
    IN  Catch(body, LAMBDA s, e: Return(s, Failure("Error converting Excel to CSV")))

(* --------------------------- Python values ---------------------------- *)
\* A str is a sequence of characters.  The characters are one-character
\* strings, except that the name of a key ("markdown_text", "arguments", ...)
\* and the literal null are one character each.  A value is a record: its type
\* and, for a str, its characters; for any other type, the JSON text it was
\* read from.
Str(s) == [t |-> "str", s |-> s]

PyNone == [t |-> "null", s |-> <<"null">>]

\* An exception that leaves the function.
Exc(name) == [t |-> "exc", s |-> <<name>>]

\* len(value) raises TypeError: a value without a length, or the exception
\* that came instead of a value.
Unsized(v) == v.t \in {"int", "null", "exc"}

Whitespace == {" ", "\n", "\r", "\t"}

\* bool(value) is False: None, "", [] and {}.
Falsy(v) ==
    \/ v.t = "null"
    \/ v.t = "str" /\ v.s = <<>>
    \/ v.t \in {"list", "dict"} /\ Len(SelectSeq(v.s, LAMBDA c : c \notin Whitespace)) = 2

Min(S) == CHOOSE x \in S : \A y \in S : x <= y

Max(S) == CHOOSE x \in S : \A y \in S : x >= y

\* s[a:b] and s[a:], with Python's indices (the first character is s[0]).
Slice(s, a, b) ==
    LET lo == IF a < 0 THEN 0 ELSE a
        hi == IF b > Len(s) THEN Len(s) ELSE b
    IN  IF lo >= hi THEN <<>> ELSE SubSeq(s, lo + 1, hi)

From(s, a) == Slice(s, a, Len(s))

StartsWith(s, p) == Len(p) <= Len(s) /\ SubSeq(s, 1, Len(p)) = p

EndsWith(s, p) == Len(p) <= Len(s) /\ SubSeq(s, Len(s) - Len(p) + 1, Len(s)) = p

Occurrences(s, p) == {i \in 0..(Len(s) - Len(p)) : Slice(s, i, i + Len(p)) = p}

\* s.find(p) and s.rfind(p): -1 when p does not occur.
Find(s, p) == IF Occurrences(s, p) = {} THEN -1 ELSE Min(Occurrences(s, p))

RFind(s, p) == IF Occurrences(s, p) = {} THEN -1 ELSE Max(Occurrences(s, p))

\* p in s
Contains(s, p) == Occurrences(s, p) # {}

RStripChars(s, chars) ==
    LET keep == {i \in 1..Len(s) : s[i] \notin chars}
    IN  IF keep = {} THEN <<>> ELSE SubSeq(s, 1, Max(keep))

LStripChars(s, chars) ==
    LET keep == {i \in 1..Len(s) : s[i] \notin chars}
    IN  IF keep = {} THEN <<>> ELSE SubSeq(s, Min(keep), Len(s))

RStrip(text) == RStripChars(text, Whitespace)

Strip(text) == LStripChars(RStripChars(text, Whitespace), Whitespace)

\* s.replace(old, new): the occurrences from left to right, not overlapping.
RECURSIVE Replace(_, _, _)
Replace(s, old, new) ==
    IF Len(s) < Len(old) THEN s
    ELSE IF StartsWith(s, old) THEN new \o Replace(From(s, Len(old)), old, new)
    ELSE <<Head(s)>> \o Replace(Tail(s), old, new)

\* content.replace('\\n', '\n').replace('\\r', '\r').replace('\\t', '\t')
\*        .replace('\\"', '"')
ReplaceEscapes(content) ==
    Replace(Replace(Replace(Replace(content, <<"\\", "n">>, <<"\n">>),
                            <<"\\", "r">>, <<"\r">>),
                    <<"\\", "t">>, <<"\t">>),
            <<"\\", "\"">>, <<"\"">>)

\* name = value, then the statements that use name.
With(value, F(_)) == F(value)

(* ------------------------------ json.loads ---------------------------- *)
\* The interpreter's recursion limit, counted in nested arrays and objects.
RecursionLimit == 3

\* A spelling of the key markdown_text with the underscore written _.
EscapedKeys == {"markdown\\u005ftext"}

\* The characters a backslash may precede inside a JSON string, and what the
\* pair stands for.
JsonEscapes == {"\"", "\\", "/", "n", "r", "t"}

JsonUnescape(c) ==
    CASE c = "n" -> "\n"
      [] c = "r" -> "\r"
      [] c = "t" -> "\t"
      [] OTHER -> c

JsonChar(c) == IF c \in EscapedKeys THEN "markdown_text" ELSE c

Digits == {"5"}

\* The outcome of a scan: "ok" with the value, the pairs of an object and the
\* position after the value; "err" for JSONDecodeError; "rec" for
\* RecursionError.
JsonOk(t, s, items, end) == [k |-> "ok", t |-> t, s |-> s, items |-> items, end |-> end]

JsonErr == [k |-> "err", t |-> "null", s |-> <<>>, items |-> <<>>, end |-> 0]

JsonRec == [k |-> "rec", t |-> "null", s |-> <<>>, items |-> <<>>, end |-> 0]

\* The position of the first character at or after i that is no whitespace.
RECURSIVE SkipWs(_, _)
SkipWs(s, i) == IF i <= Len(s) /\ s[i] \in Whitespace THEN SkipWs(s, i + 1) ELSE i

\* py_scanstring in strict mode, from the character after the opening quote.
RECURSIVE ScanString(_, _, _)
ScanString(s, i, acc) ==
    IF i > Len(s) THEN JsonErr
    ELSE IF s[i] = "\"" THEN JsonOk("str", acc, <<>>, i + 1)
    ELSE IF s[i] = "\\"
    THEN IF i + 1 <= Len(s) /\ s[i + 1] \in JsonEscapes
         THEN ScanString(s, i + 2, Append(acc, JsonUnescape(s[i + 1])))
         ELSE JsonErr
    ELSE IF s[i] \in {"\n", "\r", "\t"} THEN JsonErr
    ELSE ScanString(s, i + 1, Append(acc, JsonChar(s[i])))

RECURSIVE ScanDigits(_, _)
ScanDigits(s, i) == IF i <= Len(s) /\ s[i] \in Digits THEN ScanDigits(s, i + 1) ELSE i

\* scan_once: the value that starts at s[i], inside depth arrays and objects.
\* JsonElements scans an array from its first element and JsonMembers an
\* object from its first key; first is the position of the opening bracket.
RECURSIVE JsonValue(_, _, _), JsonElements(_, _, _, _), JsonMembers(_, _, _, _, _)
JsonValue(s, i, depth) ==
    IF i > Len(s) THEN JsonErr
    ELSE CASE s[i] = "\"" -> ScanString(s, i + 1, <<>>)
           [] s[i] = "null" -> JsonOk("null", <<"null">>, <<>>, i + 1)
           [] s[i] \in Digits ->
                LET e == ScanDigits(s, i) IN JsonOk("int", SubSeq(s, i, e - 1), <<>>, e)
           [] s[i] = "[" ->
                IF depth >= RecursionLimit THEN JsonRec
                ELSE LET j == SkipWs(s, i + 1)
                     IN  IF j <= Len(s) /\ s[j] = "]"
                         THEN JsonOk("list", SubSeq(s, i, j), <<>>, j + 1)
                         ELSE JsonElements(s, j, depth + 1, i)
           [] s[i] = "{" ->
                IF depth >= RecursionLimit THEN JsonRec
                ELSE LET j == SkipWs(s, i + 1)
                     IN  IF j <= Len(s) /\ s[j] = "}"
                         THEN JsonOk("dict", SubSeq(s, i, j), <<>>, j + 1)
                         ELSE JsonMembers(s, j, depth + 1, i, <<>>)
           [] OTHER -> JsonErr

JsonElements(s, i, depth, first) ==
    With(JsonValue(s, i, depth), LAMBDA v:
      IF v.k # "ok" THEN v
      ELSE With(SkipWs(s, v.end), LAMBDA j:
             IF j > Len(s) THEN JsonErr
             ELSE IF s[j] = "]" THEN JsonOk("list", SubSeq(s, first, j), <<>>, j + 1)
             ELSE IF s[j] = "," THEN JsonElements(s, SkipWs(s, j + 1), depth, first)
             ELSE JsonErr))

JsonMembers(s, i, depth, first, items) ==
    IF i > Len(s) \/ s[i] # "\"" THEN JsonErr
    ELSE With(ScanString(s, i + 1, <<>>), LAMBDA key:
           IF key.k # "ok" THEN key
           ELSE With(SkipWs(s, key.end), LAMBDA c:
                  IF c > Len(s) \/ s[c] # ":" THEN JsonErr
                  ELSE With(JsonValue(s, SkipWs(s, c + 1), depth), LAMBDA v:
                         IF v.k # "ok" THEN v
                         ELSE With(SkipWs(s, v.end), LAMBDA j:
                                With(Append(items, [key |-> key.s, val |-> [t |-> v.t, s |-> v.s]]),
                                     LAMBDA more:
                                  IF j > Len(s) THEN JsonErr
                                  ELSE IF s[j] = "}" THEN JsonOk("dict", SubSeq(s, first, j), more, j + 1)
                                  ELSE IF s[j] = ","
                                  THEN JsonMembers(s, SkipWs(s, j + 1), depth, first, more)
                                  ELSE JsonErr)))))

\* json.loads(text): one value, whitespace around it, and nothing else.
JsonLoads(text) ==
    With(JsonValue(text, SkipWs(text, 1), 0), LAMBDA v:
      IF v.k = "ok" /\ SkipWs(text, v.end) <= Len(text) THEN JsonErr ELSE v)

\* key in parsed, parsed[key], len(parsed) and list(parsed.values())[0] for
\* the dict an object was read into: a key written twice keeps its first
\* place and its last value.
HasKey(parsed, key) == \E i \in DOMAIN parsed.items : parsed.items[i].key = key

GetItem(parsed, key) ==
    parsed.items[Max({i \in DOMAIN parsed.items : parsed.items[i].key = key})].val

DictLen(parsed) == Cardinality({parsed.items[i].key : i \in DOMAIN parsed.items})

FirstValue(parsed) == GetItem(parsed, parsed.items[1].key)

(* --------------------------- text recovery ---------------------------- *)
\* A stage of fix_json_format either returns a value or falls through to the
\* next stage.
Fall == [done |-> FALSE, v |-> Str(<<>>)]

Ret(v) == [done |-> TRUE, v |-> v]

\* replace_newlines_in_strings: the text between two quotes with its line
\* breaks, carriage returns and tabs escaped.
EscapeControl(content) ==
    Replace(Replace(Replace(content, <<"\n">>, <<"\\", "n">>),
                    <<"\r">>, <<"\\", "r">>),
            <<"\t">>, <<"\\", "t">>)

\* re.sub(r'"([^"]*(?:\\n[^"]*)*)"', replace_newlines_in_strings, text): the
\* pattern matches from a quote to the next quote, escaped or not.
RECURSIVE SubStringPattern(_)
SubStringPattern(text) ==
    With(Find(text, <<"\"">>), LAMBDA i:
      IF i = -1 THEN text
      ELSE With(From(text, i + 1), LAMBDA rest:
             With(Find(rest, <<"\"">>), LAMBDA j:
               IF j = -1 THEN text
               ELSE Slice(text, 0, i + 1) \o EscapeControl(Slice(rest, 0, j)) \o <<"\"">>
                        \o SubStringPattern(From(rest, j + 1)))))

\* \s*"([^"]*(?:\\n[^"]*)*)" matched at position i (the first character is
\* position 1): the group, and the position after the closing quote; 0 when
\* there is no match.
QuotedAt(text, i) ==
    With(SkipWs(text, i), LAMBDA q:
      With(From(text, q), LAMBDA rest:
        With(Find(rest, <<"\"">>), LAMBDA j:
          IF q <= Len(text) /\ text[q] = "\"" /\ j # -1
          THEN [end |-> q + j + 2, group |-> Slice(rest, 0, j)]
          ELSE [end |-> 0, group |-> <<>>])))

\* re.search(r'"<field>":\s*"([^"]*(?:\\n[^"]*)*)"', text, re.DOTALL): the
\* group of the leftmost match.
FieldMatches(text, field) ==
    {i \in 0..Len(text) :
        /\ Slice(text, i, i + 4) = <<"\"", field, "\"", ":">>
        /\ QuotedAt(text, i + 5).end # 0}

SearchField(text, field) == QuotedAt(text, Min(FieldMatches(text, field)) + 5).group

\* r'"([^"]+)":\s*"([^"]*(?:\\n[^"]*)*)"' matched at position i: the two
\* groups and the position after the match.
PairAt(text, i) ==
    With(From(text, i), LAMBDA rest:
      With(Find(rest, <<"\"">>), LAMBDA k:
        With(QuotedAt(text, i + k + 3), LAMBDA value:
          IF /\ i <= Len(text) /\ text[i] = "\""
             /\ k >= 1
             /\ i + k + 2 <= Len(text) /\ text[i + k + 2] = ":"
             /\ value.end # 0
          THEN [end |-> value.end, name |-> Slice(rest, 0, k), value |-> value.group]
          ELSE [end |-> 0, name |-> <<>>, value |-> <<>>])))

\* re.findall of that pattern from position i on: the matches from left to
\* right, not overlapping.
RECURSIVE FindAllPairs(_, _)
FindAllPairs(text, i) ==
    IF i > Len(text) THEN <<>>
    ELSE With(PairAt(text, i), LAMBDA m:
           IF m.end = 0 THEN FindAllPairs(text, i + 1)
           ELSE <<[name |-> m.name, value |-> m.value]>> \o FindAllPairs(text, m.end))

StartMarker == <<"\"", "markdown_text", "\"", ":", " ", "\"">>

\* text[start_content:] for start_marker '"markdown_text": "'.
AfterMarker(text) == From(text, Find(text, StartMarker) + Len(StartMarker))

\* for pattern in ['"}', '",', '"}', '"']: the text before the first pattern
\* that occurs after position 0.
EndPatterns == <<(<<"\"", "}">>), (<<"\"", ",">>), (<<"\"", "}">>), (<<"\"">>)>>

FoundPatterns(remaining_text) == {n \in DOMAIN EndPatterns : Find(remaining_text, EndPatterns[n]) > 0}

BeforeEndPattern(remaining_text) ==
    Slice(remaining_text, 0, Find(remaining_text, EndPatterns[Min(FoundPatterns(remaining_text))]))

\* Lines 368-375: a text in quotes is read as a JSON string, or loses its
\* quotes.
QuotedText(text) ==
    IF StartsWith(text, <<"\"">>) /\ EndsWith(text, <<"\"">>)
    THEN With(JsonLoads(text), LAMBDA parsed:
           IF parsed.k = "ok" THEN Ret([t |-> parsed.t, s |-> parsed.s])
           ELSE Ret(Str(IF Len(text) > 2 THEN Slice(text, 1, Len(text) - 1) ELSE text)))
    ELSE Fall

\* Lines 398-418: the text after the marker, without its trailing whitespace,
\* is closed with '"}' and parsed; when that fails too it is returned as it
\* stands.
ClosedFragment(content_part) ==
    With(JsonLoads(<<"{">> \o StartMarker \o content_part \o <<"\"", "}">>), LAMBDA fixed:
      IF fixed.k = "ok"
      THEN IF HasKey(fixed, <<"markdown_text">>)
           THEN Ret(GetItem(fixed, <<"markdown_text">>))
           ELSE Fall
      ELSE Ret(Str(content_part)))

\* Lines 379-418: an object that names markdown_text; when it does not parse
\* and does not end in a brace, the rest of the text after the marker is
\* closed with '"}' and parsed again.
MarkdownTextObject(text) ==
    IF StartsWith(text, <<"{">>) /\ Contains(text, <<"\"", "markdown_text", "\"">>)
    THEN With(JsonLoads(text), LAMBDA parsed:
           CASE parsed.k = "rec" -> Ret(Exc("RecursionError"))
             [] parsed.k = "ok" ->
                  IF parsed.t = "dict" /\ HasKey(parsed, <<"markdown_text">>)
                  THEN Ret(GetItem(parsed, <<"markdown_text">>))
                  ELSE Fall
             [] OTHER ->
                  IF /\ Contains(text, <<"\"", "markdown_text", "\"", ":">>)
                     /\ ~EndsWith(RStrip(text), <<"}">>)
                     /\ Find(text, StartMarker) # -1
                  THEN With(AfterMarker(text), LAMBDA content_part:
                         IF /\ ~EndsWith(content_part, <<"\"", "}">>)
                            /\ ~EndsWith(content_part, <<"\"", ",">>)
                         THEN ClosedFragment(RStripChars(RStrip(content_part), {"\n"}))
                         ELSE Fall)
                  ELSE Fall)
    ELSE Fall

\* Lines 431-462: the value of arguments is parsed in its turn; when it does
\* not parse, the text after the marker up to the first end pattern.
InnerArguments(arguments_str) ==
    IF arguments_str.t # "str" THEN Fall                      \* TypeError
    ELSE With(JsonLoads(arguments_str.s), LAMBDA inner_parsed:
           CASE inner_parsed.k = "rec" -> Fall
             [] inner_parsed.k = "ok" ->
                  IF inner_parsed.t = "dict" /\ HasKey(inner_parsed, <<"markdown_text">>)
                  THEN With(GetItem(inner_parsed, <<"markdown_text">>), LAMBDA content:
                         IF content.t = "str"
                         THEN Ret(Str(ReplaceEscapes(content.s)))
                         ELSE Fall)                           \* AttributeError
                  ELSE Fall
             [] OTHER ->
                  IF /\ Contains(arguments_str.s, <<"\"", "markdown_text", "\"">>)
                     /\ Find(arguments_str.s, StartMarker) # -1
                  THEN With(AfterMarker(arguments_str.s), LAMBDA remaining_text:
                         IF FoundPatterns(remaining_text) # {}
                         THEN Ret(Str(ReplaceEscapes(BeforeEndPattern(remaining_text))))
                         ELSE Fall)
                  ELSE Fall)

\* Lines 420-465: {"arguments": "<JSON text>", ...}.  Everything raised
\* inside is caught and the stage falls through.
NestedArguments(text) ==
    IF StartsWith(text, <<"{">>) /\ Contains(text, <<"\"", "arguments", "\"">>)
    THEN With(JsonLoads(text), LAMBDA outer_parsed:
           IF outer_parsed.k = "ok" /\ outer_parsed.t = "dict" /\ HasKey(outer_parsed, <<"arguments">>)
           THEN InnerArguments(GetItem(outer_parsed, <<"arguments">>))
           ELSE Fall)
    ELSE Fall

\* The value of a field of a parsed object as it is returned: a str with its
\* escape sequences replaced, anything else as it is.
Unescaped(value) == IF value.t = "str" THEN Str(ReplaceEscapes(value.s)) ELSE value

FieldOrder == <<"markdown_text", "text", "content", "message", "html_content", "input_file">>

FieldsIn(parsed) == {n \in DOMAIN FieldOrder : HasKey(parsed, <<FieldOrder[n]>>)}

\* Lines 467-515: the text, with the line breaks between quotes escaped, is
\* parsed as an object; the first field of FieldOrder, or the only value.
\* Only JSONDecodeError is caught.
ObjectFields(text) ==
    IF StartsWith(text, <<"{">>)
    THEN With(JsonLoads(SubStringPattern(text)), LAMBDA parsed:
           CASE parsed.k = "rec" -> Ret(Exc("RecursionError"))
             [] parsed.k = "ok" /\ parsed.t = "dict" ->
                  With(FieldsIn(parsed), LAMBDA fields:
                    IF fields # {}
                    THEN Ret(Unescaped(GetItem(parsed, <<FieldOrder[Min(fields)]>>)))
                    ELSE IF DictLen(parsed) = 1 THEN Ret(Unescaped(FirstValue(parsed)))
                    ELSE Fall)
             [] OTHER -> Fall)
    ELSE Fall

\* Lines 517-538: the six field patterns, in order.
PatternsIn(text) == {n \in DOMAIN FieldOrder : FieldMatches(text, FieldOrder[n]) # {}}

FieldPatterns(text) ==
    With(PatternsIn(text), LAMBDA found:
      IF found # {}
      THEN Ret(Str(ReplaceEscapes(SearchField(text, FieldOrder[Min(found)]))))
      ELSE Fall)

\* for field_name, field_value in matches: the places of the pairs named
\* markdown_text, text, content or message.
NamedPairs(matches) ==
    {n \in DOMAIN matches :
        matches[n].name \in {<<"markdown_text">>, <<"text">>, <<"content">>, <<"message">>}}

\* Lines 540-568: any "name": "value" pair; a pair named markdown_text, text,
\* content or message first, the first pair otherwise.
AnyPair(text) ==
    With(FindAllPairs(text, 1), LAMBDA matches:
      IF matches = <<>> THEN Fall
      ELSE With(NamedPairs(matches), LAMBDA named:
             IF named # {} THEN Ret(Str(ReplaceEscapes(matches[Min(named)].value)))
             ELSE Ret(Str(ReplaceEscapes(matches[1].value)))))

\* Lines 570-587: from the marker to the last quote of the text.
MarkerToLastQuote(text) ==
    With(Find(text, StartMarker), LAMBDA start_quote:
      With(RFind(text, <<"\"">>), LAMBDA end_quote:
        IF start_quote # -1 /\ end_quote > start_quote + Len(StartMarker)
        THEN Ret(Str(ReplaceEscapes(Slice(text, start_quote + Len(StartMarker), end_quote))))
        ELSE Fall))

\* end_pos = remaining_text.find('"}'), or remaining_text.rfind('"') when
\* there is none.
BraceOrLastQuote(remaining_text, brace) ==
    IF brace = -1 THEN RFind(remaining_text, <<"\"">>) ELSE brace

\* Lines 589-613: from the marker to the first '"}', or to the last quote.
MarkerToBrace(text) ==
    IF Contains(text, <<"\"", "markdown_text", "\"">>) /\ Find(text, StartMarker) # -1
    THEN With(AfterMarker(text), LAMBDA remaining_text:
           With(BraceOrLastQuote(remaining_text, Find(remaining_text, <<"\"", "}">>)), LAMBDA end_pos:
             IF end_pos > 0
             THEN Ret(Str(ReplaceEscapes(Slice(remaining_text, 0, end_pos))))
             ELSE Fall))
    ELSE Fall

\* Lines 615-661: from the marker to the first end pattern, or to the last
\* quote, or to the end of the text without its trailing line breaks and
\* spaces.
MarkerWindow(text) ==
    IF Contains(text, <<"\"", "markdown_text", "\"">>) /\ Find(text, StartMarker) # -1
    THEN With(AfterMarker(text), LAMBDA remaining_text:
           IF FoundPatterns(remaining_text) # {}
           THEN Ret(Str(ReplaceEscapes(BeforeEndPattern(remaining_text))))
           ELSE With(RFind(remaining_text, <<"\"">>), LAMBDA end_pos:
                  IF end_pos > 0
                  THEN Ret(Str(ReplaceEscapes(Slice(remaining_text, 0, end_pos))))
                  ELSE Ret(Str(ReplaceEscapes(RStripChars(remaining_text, {"\n", "\r", " "}))))))
    ELSE Fall

\* r if it returned, the next stage otherwise.
OrElse(r, next) == IF r.done THEN r ELSE next

\* fix_json_format(text) for a str: the blocks in the order of the source, each
\* one reached only when none before it returned.
FixJsonFormat(text) ==
    LET t1 == Strip(text)
    IN  IF text = <<>> THEN Str(<<>>)
        ELSE IF ~StartsWith(t1, <<"{">>) /\ ~StartsWith(t1, <<"\"">>) THEN Str(t1)
        ELSE OrElse(QuotedText(t1),
             OrElse(MarkdownTextObject(t1),
             OrElse(NestedArguments(t1),
             OrElse(ObjectFields(t1),
             OrElse(FieldPatterns(t1),
             OrElse(AnyPair(t1),
             OrElse(MarkerToLastQuote(t1),
             OrElse(MarkerToBrace(t1),
             OrElse(MarkerWindow(t1), Ret(Str(t1))))))))))).v

\* fix_json_format applied to any value: None, "", [] and {} give ""; any
\* other value that is no str has no strip() and raises AttributeError.
FixJsonFormatValue(v) ==
    CASE v.t = "exc" -> v
      [] Falsy(v) -> Str(<<>>)
      [] v.t = "str" -> FixJsonFormat(v.s)
      [] OTHER -> Exc("AttributeError")

(* ------------------------------ html2pdf ------------------------------ *)
\* weasyprint HTML(...).write_pdf(output_file), which writes straight into
\* OUTPUT_DIR; nothing checks the file afterwards.
WritePdf(s, cap, output_file) ==
    LET s1 == Log(s, "capability", cap)
    IN  CASE cap = "ok" -> Go([s1 EXCEPT !.out = @ \cup {output_file}])
          [] cap = "noout" -> Go(s1)
          [] OTHER -> Raise(s1, "capability")

\* HTML(url=input_file): weasyprint fetches the document itself, into memory;
\* a failed fetch raises out of the constructor, before anything is written.
FetchUrl(s, dl) ==
    IF dl = "ok" THEN Go(Log(s, "download", dl)) ELSE Raise(Log(s, "download", dl), "download")

\* f"Error converting HTML to PDF: {str(e)}": the text of the exception is
\* part of the message.
HtmlPdfError(e) ==
    IF e = "download" THEN "Error converting HTML to PDF: download" ELSE "Error converting HTML to PDF"

ConvertHtmlToPdf(s0, input_file, html_content, env, t) ==
    LET output_file == OutputPath(t, "pdf")
        \* html: html_content after fix_json_format, when there is any.
        Handled(html) == LET body ==
            IF env.cap = "noimport" THEN Raise(Log(s0, "import", "fail"), "No module named 'weasyprint'")
            ELSE IF ~Falsy(html_content) /\ Unsized(html) THEN Raise(s0, "TypeError")
            ELSE
              LET s1 == Mkdtemp(s0)
                  d == Len(s1.dirs)
                  fetched ==
                      IF html.t \notin {"str", "null"} THEN Raise(s1, "TypeError")
                      ELSE IF html.t = "null" /\ IsUrl(input_file) THEN FetchUrl(s1, env.dl)
                      ELSE Go(s1)
              IN  IF html.t # "null" \/ input_file # "none"
                  THEN Then(fetched, LAMBDA s2:
                         Then(WritePdf(s2, env.cap, output_file), LAMBDA s3:
                           Then(Rmtree(s3, d, env), LAMBDA s4:
                             Return(s4, Success(output_file)))))
                  ELSE Then(Rmtree(s1, d, env), LAMBDA s2:
                         Return(s2, Failure("You must provide either input_file or html_content")))
          IN  Catch(body, LAMBDA s, e: Return(s, Failure(HtmlPdfError(e))))
    IN  Handled(IF ~Falsy(html_content) THEN FixJsonFormat(html_content.s) ELSE html_content)

(* ------------------------------- pandoc ------------------------------- *)
\* subprocess.run(["pandoc", "--version"], check=True)
PandocVersion(s, cap) ==
    IF cap = "nopandoc" THEN Raise(Log(s, "probe", "fail"), "pandoc") ELSE Go(Log(s, "probe", "ok"))

\* subprocess.run(["pandoc", input, "-o", output]): raises, exits non-zero, or
\* exits zero with or without the output file.
Pandoc(s, cap) ==
    LET s1 == Log(s, "capability", cap)
    IN  CASE cap = "ok" -> Go([s1 EXCEPT !.tmpOut = TRUE])
          [] cap \in {"noout", "nonzero"} -> Go(s1)
          [] OTHER -> Raise(s1, "capability")

(* ------------------------------ html2docx ----------------------------- *)
ConvertHtmlToDocx(s0, input_file, html_content, env, t) ==
    LET output_file == OutputPath(t, "docx")
        \* html: html_content after fix_json_format, when there is any.
        Handled(html) == LET
        s1 == Mkdtemp(s0)
        d == Len(s1.dirs)
        resolved ==
            IF ~Falsy(html_content) /\ Unsized(html) THEN Raise(s0, "TypeError")
            ELSE IF html.t \notin {"str", "null"} THEN Raise(s1, "TypeError")
            ELSE IF html.t # "null" THEN Go(Log(s1, "write", "ok"))
            ELSE IF IsUrl(input_file)
            THEN Catch(Then(DownloadUrlToTempfile(s1, env.dl),
                            LAMBDA s: Go(TrackTempFile(s, Len(s.loose)))),
                       LAMBDA s, e:
                         Then(Rmtree(s, d, env), LAMBDA s2:
                           Return(s2, Failure("Error downloading HTML from URL"))))
            ELSE IF input_file # "none" THEN Go(s1)
            ELSE Then(Rmtree(s1, d, env), LAMBDA s2:
                   Return(s2, Failure("You must provide either input_file or html_content")))
        body ==
            Then(resolved, LAMBDA s2:
              LET temp_files == IF html.t = "null" /\ IsUrl(input_file) THEN <<Len(s2.loose)>> ELSE <<>>
                  converted ==
                      Catch(Then(Catch(PandocVersion(s2, env.cap),
                                       LAMBDA s, e:
                                         Then(RmtreeAndRemove(s, d, temp_files, env), LAMBDA s3:
                                           Return(s3, Failure("Pandoc is not installed or not available")))),
                                 LAMBDA s3:
                                   Then(Pandoc(s3, env.cap), LAMBDA s4:
                                     IF env.cap = "nonzero"
                                     THEN Then(RmtreeAndRemove(s4, d, temp_files, env), LAMBDA s5:
                                            Return(s5, Failure("Pandoc conversion failed")))
                                     ELSE IF ~s4.tmpOut
                                     THEN Then(RmtreeAndRemove(s4, d, temp_files, env), LAMBDA s5:
                                            Return(s5, Failure("HTML conversion produced no output file")))
                                     ELSE Go(s4))),
                            LAMBDA s, e:
                              Then(RmtreeAndRemove(s, d, temp_files, env), LAMBDA s3:
                                Return(s3, Failure("Error converting HTML to DOCX"))))
                  moved ==
                      Then(converted, LAMBDA s4:
                        Catch(Then(Move(s4, env.mv, output_file), LAMBDA s5: Publish(s5, env.up)),
                              LAMBDA s, e:
                                Then(RmtreeAndRemove(s, d, temp_files, env), LAMBDA s5:
                                  Return(s5, Failure("Error moving output file")))))
              \* temp_html_file lies inside temp_dir; its removal here changes
              \* nothing the rmtree that follows does not.
              IN  Then(moved, LAMBDA s5:
                    Then(RmtreeAndRemove(s5, d, temp_files, env), LAMBDA s6:
                      Return(s6, Success(output_file)))))
          IN  Catch(body, LAMBDA s, e: Return(s, Failure("Error converting HTML to DOCX")))
    IN  Handled(IF ~Falsy(html_content) THEN FixJsonFormat(html_content.s) ELSE html_content)

(* ---------------------------- markdown2pdf ---------------------------- *)
\* markdown_text has the first priority, arguments the second.
InputText(markdown_text, arguments) ==
    IF ~Falsy(markdown_text) THEN markdown_text
    ELSE IF ~Falsy(arguments) THEN arguments
    ELSE PyNone

\* if not corrected_text, without the test of the stripped length.
EmptyTextUnstripped(corrected_text) == Falsy(corrected_text)

\* if not corrected_text or len(corrected_text.strip()) == 0
EmptyText(corrected_text) == Falsy(corrected_text) \/ Strip(corrected_text.s) = <<>>

Markdown2Pdf(s0, markdown_text, arguments, env, t) ==
    LET input_text == InputText(markdown_text, arguments)
        \* corrected_text = fix_json_format(input_text)
        Handled(corrected_text) == LET body ==
            IF input_text = PyNone
            THEN Return(s0, Failure("no valid input content"))
            ELSE IF Unsized(corrected_text) THEN Raise(s0, "TypeError")
            ELSE IF corrected_text.t # "str" /\ ~Falsy(corrected_text) THEN Raise(s0, "AttributeError")
            ELSE IF EmptyText(corrected_text)
            THEN Return(s0, Failure("corrected markdown content is empty"))
            ELSE
              LET s1 == Log(Mkdtemp(s0), "write", "ok")
                  d == Len(s1.dirs)
                  \* result = convert_html_to_pdf(input_file=temp_md_file)
                  Concluded(result) == LET converted ==
                      Catch(IF ~result.v.success
                            THEN Then(Rmtree(result.s, d, env), LAMBDA s2:
                                   Return(s2, Failure(result.v.error)))
                            ELSE Go(result.s),
                            LAMBDA s, e:
                              Then(Rmtree(s, d, env), LAMBDA s2:
                                Return(s2, Failure("Error converting Markdown to PDF"))))
                    IN  Then(converted, LAMBDA s2:
                          Then(Rmtree(s2, d, env), LAMBDA s3:
                            Return(s3, [success |-> TRUE, output_file |-> result.v.output_file,
                                        download_url |-> result.v.download_url])))
              IN  Concluded(ConvertHtmlToPdf(s1, "temp_md_file", PyNone, env, t))
          IN  Catch(body, LAMBDA s, e: Return(s, Failure("Error converting Markdown to PDF")))
    IN  Handled(FixJsonFormat(input_text.s))

(* ---------------------------- markdown2docx --------------------------- *)
\* Lines 1683-1709: a text that still looks like an object is parsed again;
\* only JSONDecodeError is caught, and then the text from the marker to the
\* first "} after it, else to the last quote, is taken.
ParsedAgain(corrected_text) ==
    IF StartsWith(corrected_text, <<"{">>) /\ Contains(corrected_text, <<"\"", "markdown_text", "\"">>)
    THEN With(JsonLoads(corrected_text), LAMBDA parsed:
           CASE parsed.k = "rec" -> Exc("RecursionError")
             [] parsed.k = "ok" ->
                  IF parsed.t = "dict" /\ HasKey(parsed, <<"markdown_text">>)
                  THEN GetItem(parsed, <<"markdown_text">>)
                  ELSE Str(corrected_text)
             [] Find(corrected_text, StartMarker) = -1 -> Str(corrected_text)
             [] OTHER ->
                  With(Find(corrected_text, StartMarker) + Len(StartMarker), LAMBDA start_content:
                    With(IF Find(From(corrected_text, start_content), <<"\"", "}">>) # -1
                         THEN start_content + Find(From(corrected_text, start_content), <<"\"", "}">>)
                         ELSE RFind(corrected_text, <<"\"">>), LAMBDA end_pos:
                      IF end_pos > start_content
                      THEN Str(ReplaceEscapes(Slice(corrected_text, start_content, end_pos)))
                      ELSE Str(corrected_text))))
    ELSE Str(corrected_text)

\* Lines 1713-1737: the text from the marker to the first end pattern.
WindowAgain(v) ==
    CASE v.t = "exc" -> v
      [] v.t # "str" -> Exc("AttributeError")
      [] OTHER ->
           IF /\ StartsWith(v.s, <<"{">>) /\ Contains(v.s, <<"\"", "markdown_text", "\"">>)
              /\ Find(v.s, StartMarker) # -1
           THEN With(AfterMarker(v.s), LAMBDA remaining_text:
                  IF FoundPatterns(remaining_text) # {}
                  THEN Str(ReplaceEscapes(BeforeEndPattern(remaining_text)))
                  ELSE v)
           ELSE v

\* Lines 1741-1781: the same window, and when the text still starts with a
\* brace, the text from the marker to the last quote.
WindowOrLastQuote(v) ==
    CASE v.t = "exc" -> v
      [] v.t # "str" -> Exc("AttributeError")
      [] OTHER ->
           IF /\ StartsWith(v.s, <<"{">>) /\ Contains(v.s, <<"\"", "markdown_text", "\"">>)
              /\ Find(v.s, StartMarker) # -1
           THEN With(AfterMarker(v.s), LAMBDA remaining_text:
                  With(WindowAgain(v), LAMBDA w:
                    IF StartsWith(w.s, <<"{">>) /\ RFind(remaining_text, <<"\"">>) > 0
                    THEN Str(ReplaceEscapes(Slice(remaining_text, 0, RFind(remaining_text, <<"\"">>))))
                    ELSE w))
           ELSE v

\* Lines 1683-1781: the passes of markdown2docx over what fix_json_format
\* returned. A value that is no str goes on to the checks that follow.
FurtherRepair(corrected_text) ==
    IF corrected_text.t # "str" THEN corrected_text
    ELSE WindowOrLastQuote(WindowAgain(ParsedAgain(corrected_text.s)))

Markdown2Docx(s0, markdown_text, arguments, env, t) ==
    LET input_text == InputText(markdown_text, arguments)
        output_file == OutputPath(t, "docx")
        \* corrected_text = fix_json_format(input_text)
        Handled(corrected_text) == LET body ==
            IF input_text = PyNone
            THEN Return(s0, Failure("no valid input content"))
            ELSE IF Unsized(corrected_text) THEN Raise(s0, "TypeError")
            ELSE IF corrected_text.t # "str" /\ ~Falsy(corrected_text) THEN Raise(s0, "AttributeError")
            ELSE IF EmptyText(corrected_text)
            THEN Return(s0, Failure("corrected markdown content is empty"))
            ELSE
              LET s1 == Log(Mkdtemp(s0), "write", "ok")
                  d == Len(s1.dirs)
                  probed ==
                      Catch(PandocVersion(s1, env.cap),
                            LAMBDA s, e:
                              Then(Rmtree(s, d, env), LAMBDA s2:
                                Return(s2, Failure("Pandoc is not installed or not available"))))
                  converted ==
                      Then(probed, LAMBDA s2:
                        Catch(Then(Pandoc(s2, env.cap), LAMBDA s3:
                                IF env.cap = "nonzero"
                                THEN Then(Rmtree(s3, d, env), LAMBDA s4:
                                       Return(s4, Failure("Pandoc conversion failed")))
                                ELSE IF ~s3.tmpOut
                                THEN Then(Rmtree(s3, d, env), LAMBDA s4:
                                       Return(s4, Failure("Markdown conversion produced no output file")))
                                ELSE Go(s3)),
                              LAMBDA s, e:
                                Then(Rmtree(s, d, env), LAMBDA s3:
                                  Return(s3, Failure("Error converting Markdown to DOCX")))))
                  moved ==
                      Then(converted, LAMBDA s3:
                        Catch(Then(Move(s3, env.mv, output_file), LAMBDA s4: Publish(s4, env.up)),
                              LAMBDA s, e:
                                Then(Rmtree(s, d, env), LAMBDA s4:
                                  Return(s4, Failure("Error moving output file")))))
              IN  Then(moved, LAMBDA s4:
                    Then(Rmtree(s4, d, env), LAMBDA s5:
                      Return(s5, Success(output_file))))
          IN  Catch(body, LAMBDA s, e: Return(s, Failure("Error converting Markdown to DOCX")))
    IN  Handled(FurtherRepair(FixJsonFormat(input_text.s)))

(* ----------------------------- convert_file --------------------------- *)
\* The source formats without "png".
ImageFormatsWithoutPng == {"jpg", "jpeg", "webp", "gif", "bmp", "tiff"}

ImageFormats == {"jpg", "jpeg", "png", "webp", "gif", "bmp", "tiff"}

\* conversion_func(...) / convert_image(..., output_format=output_format): the
\* function convert_file calls and the target format it passes.
Route(s, func, output_format) ==
    [s EXCEPT !.route = Append(@, [func |-> func, output_format |-> output_format])]

\* f"Unsupported conversion: {input_format} to {output_format}"
UnsupportedConversion(input_format, output_format) ==
    "Unsupported conversion: " \o input_format \o " to " \o output_format

\* conversion_map: the capability a (source, target) pair is bound to.
ConversionMap(key) ==
    CASE key = <<"docx", "pdf">> -> "convert_docx_to_pdf"
      [] key = <<"pdf", "docx">> -> "convert_pdf_to_docx"
      [] key = <<"markdown", "pdf">> -> "convert_html_to_pdf"
      [] key = <<"md", "pdf">> -> "convert_html_to_pdf"
      [] OTHER -> "none"

ConvertFile(s0, input_file, file_content_base64, input_format, output_format, env, t) ==
    LET conversion_key == <<Lower(input_format), Lower(output_format)>>
        conversion_func == ConversionMap(conversion_key)
        useContent == file_content_base64 # "none"
        inF == IF useContent THEN "none" ELSE input_file
        b64 == IF useContent THEN file_content_base64 ELSE "none"
        body ==
            IF input_file = "none" /\ file_content_base64 = "none"
            THEN Return(s0, Failure("You must provide either input_file or file_content_base64"))
            ELSE IF input_format = "none" \/ output_format = "none"
            THEN Return(s0, Failure("You must specify both input_format and output_format"))
            ELSE LET s1 == Route(s0, conversion_func, "none")
                     s2 == Route(s0, "convert_image", output_format)
                 IN
                 CASE conversion_func = "convert_docx_to_pdf" -> ConvertDocxToPdf(s1, inF, b64, env, t)
                   [] conversion_func = "convert_pdf_to_docx" -> ConvertPdfToDocx(s1, inF, b64, env, t)
                   [] conversion_func = "convert_html_to_pdf" ->
                        \* convert_html_to_pdf takes no file_content_base64 parameter.
                        IF useContent
                        THEN Raise(Log(s1, "typeerror", "file_content_base64"),
                                   "unexpected keyword argument 'file_content_base64'")
                        ELSE ConvertHtmlToPdf(s1, inF, PyNone, env, t)
                   [] OTHER ->
                        IF Lower(input_format) \in ImageFormats
                        THEN IF useContent
                             THEN ConvertImage(s2, "none", b64, output_format, input_format, env, t)
                             ELSE ConvertImage(s2, inF, "none", output_format, "none", env, t)
                        ELSE Return(s0, Failure(UnsupportedConversion(input_format, output_format)))
    IN  Catch(body, LAMBDA s, e: Return(s, Failure("Error converting file")))

(* --------------------------- content wrappers ------------------------- *)
ConvertContent(s0, file_content_base64, input_format, output_format, env, t) ==
    Catch(ConvertFile(s0, "none", file_content_base64, input_format, output_format, env, t),
          LAMBDA s, e: Return(s, DebugJsonResponse(FormatErrorResponse("Error converting content"))))

ConvertDocxToPdfContent(s0, file_content_base64, env, t) ==
    LET result == ConvertDocxToPdf(s0, "none", file_content_base64, env, t)
    IN  [result EXCEPT !.v = DebugJsonResponse(@)]

\* requests.get(input_file) into memory: no temp file is made.
DownloadToMemory(s, dl) ==
    IF dl = "ok" THEN Go(Log(s, "download", dl)) ELSE Raise(Log(s, "download", dl), "download")

ConvertPdfToDocxContent(s0, file_content_base64, input_file, env, t) ==
    LET downloaded ==
            IF IsUrl(input_file)
            THEN Catch(DownloadToMemory(s0, env.dl),
                       LAMBDA s, e:
                         Return(s, DebugJsonResponse(Failure("Error downloading file from URL"))))
            ELSE Go(s0)
        b64 == IF IsUrl(input_file) THEN "data" ELSE file_content_base64
    IN  Then(downloaded, LAMBDA s1:
          IF b64 = "none"
          THEN Return(s1, DebugJsonResponse(Failure("No base64 content provided.")))
          ELSE LET result == ConvertPdfToDocx(s1, "none", b64, env, t)
               IN  [result EXCEPT !.v = DebugJsonResponse(@)])

ConvertMarkdownToPdfContent(s0, file_content_base64, env, t) ==
    LET result == ConvertFile(s0, "none", file_content_base64, "md", "pdf", env, t)
    IN  [result EXCEPT !.v = DebugJsonResponse(@)]

(* --------------------------- markdown_convert ------------------------- *)
MarkdownConvert(s0, output_format, markdown_text, content, env, t) ==
    LET input_text == InputText(markdown_text, content)
        body ==
            IF input_text = PyNone
            THEN Return(s0, Failure("no valid markdown content"))
            ELSE CASE Lower(output_format) = "docx" -> Markdown2Docx(s0, input_text, PyNone, env, t)
                   [] Lower(output_format) = "pdf" -> Markdown2Pdf(s0, input_text, PyNone, env, t)
                   [] OTHER -> Return(s0, Failure("unsupported output format"))
    IN  Catch(body, LAMBDA s, e: Return(s, Failure("conversion failed")))

(* ------------------------------ requests ------------------------------ *)
InputFiles == {"none", "https://h/f", "/data/f"}

ExcelFiles == {"https://h/f", "/data/f.xlsx", "/data/f"}

Base64Contents == {"none", "data"}

Texts == {PyNone, Str(<<>>), Str(<<" ">>), Str(<<"#", " ", "H", "i">>)}

\* The markdown_text of a request: a text of Texts, an object whose
\* markdown_text is blank, or one whose markdown_text is such an object again.
MarkdownTexts ==
    Texts \cup {Str(<<"{", "\"", "markdown_text", "\"", ":", " ", "\"", " ", "\"", "}">>),
                Str(<<"{", "\"", "markdown_text", "\"", ":", " ", "\"",
                      "{", "\\", "\"", "markdown_text", "\\", "\"", ":", " ", "\\", "\"", " ", "\\", "\"", "}",
                      "\"", "}">>)}

TargetFormats == {"none", "png", "PNG", "xyz"}

SourceFormats == {"none", "docx", "PDF", "md", "png", "txt"}

FileTargetFormats == {"none", "pdf", "docx", "PNG"}

PublisherOutcomes == {"ok", "nolocal", "unreadable", "connfail", "putfail", "statmissing"}

RmOutcomes(n) == [1..n -> {"ok", "fail"}]

\* The outcomes of the external collaborators during one request.
Envs(dls, decs, caps, mvs, ups, rms, rmfs, wins) ==
    [dl : dls, dec : decs, cap : caps, mv : mvs, up : ups, rm : rms, rmf : rmfs, windows : wins]

OkFail == {"ok", "fail"}

DocxEnvs ==
    Envs(OkFail, OkFail, {"ok", "raise", "noout"}, OkFail, {"ok"}, RmOutcomes(1), OkFail, BOOLEAN)

PdfEnvs ==
    Envs(OkFail, OkFail, {"ok", "raise", "noout"}, OkFail, PublisherOutcomes, RmOutcomes(2), OkFail, {FALSE})

ImageEnvs ==
    Envs(OkFail, OkFail, {"ok", "raise", "noout"}, OkFail, {"ok"}, RmOutcomes(1), OkFail, {FALSE})

ExcelEnvs ==
    Envs(OkFail, {"ok"}, {"ok", "raise", "noout"}, {"ok"}, {"ok"}, RmOutcomes(1), OkFail, {FALSE})

HtmlPdfEnvs ==
    Envs(OkFail, {"ok"}, {"ok", "raise", "noout", "noimport"}, {"ok"}, {"ok"}, RmOutcomes(1), {"ok"}, {FALSE})

HtmlDocxEnvs ==
    Envs(OkFail, {"ok"}, {"ok", "raise", "noout", "nonzero", "nopandoc"}, OkFail, PublisherOutcomes,
         RmOutcomes(2), OkFail, {FALSE})

MdPdfEnvs ==
    Envs({"ok"}, {"ok"}, {"ok", "raise", "noout", "noimport"}, {"ok"}, {"ok"}, RmOutcomes(3), {"ok"}, {FALSE})

MdDocxEnvs ==
    Envs({"ok"}, {"ok"}, {"ok", "raise", "noout", "nonzero", "nopandoc"}, OkFail, PublisherOutcomes,
         RmOutcomes(2), {"ok"}, {FALSE})

\* The collaborators the capability bound to a format pair can reach.
FileEnvs(input_format, output_format) ==
    LET f == ConversionMap(<<Lower(input_format), Lower(output_format)>>)
    IN  CASE f = "convert_docx_to_pdf" -> DocxEnvs
          [] f = "convert_pdf_to_docx" -> PdfEnvs
          [] f = "convert_html_to_pdf" -> HtmlPdfEnvs
          [] OTHER -> ImageEnvs

Idle == [op |-> "none", args |-> <<>>, ret |-> Failure("none"), escaped |-> FALSE, fp |-> S0]

\* What a finished call leaves behind: the dictionary handed to the caller,
\* whether an exception crossed the tool boundary, and the footprint.
Finish(op, args, r) ==
    /\ last' = [op |-> op, args |-> args, ret |-> r.v, escaped |-> (r.k # "ret"), fp |-> r.s]
    /\ UNCHANGED <<clock, prevOut, fix>>

\* fix_json_format called on text: calls counts the calls made, once is what
\* the first call returned, twice what the call on that result returned.
FixCall(text) ==
    [text |-> text, calls |-> 0, once |-> PyNone, twice |-> PyNone, repaired |-> FALSE, docx |-> PyNone]

Init ==
    /\ clock = 0
    /\ prevOut = {}
    /\ last = Idle
    /\ fix = FixCall(<<>>)

\* int(time.time()) moves on.
Tick ==
    /\ clock < MaxClock
    /\ clock' = clock + 1
    /\ UNCHANGED <<prevOut, last, fix>>

\* The server is ready for the next call; the files the finished call left in
\* OUTPUT_DIR stay there.
Respond ==
    /\ last.op # "none"
    /\ prevOut' = last.fp.out
    /\ last' = Idle
    /\ UNCHANGED <<clock, fix>>

Docx2Pdf ==
    /\ last.op = "none"
    /\ \E input_file \in InputFiles, b64 \in Base64Contents, env \in DocxEnvs :
        Finish("docx2pdf", [input_file |-> input_file, file_content_base64 |-> b64],
               ConvertDocxToPdf(S0, input_file, b64, env, clock))

Pdf2Docx ==
    /\ last.op = "none"
    /\ \E input_file \in InputFiles, b64 \in Base64Contents, env \in PdfEnvs :
        Finish("pdf2docx", [input_file |-> input_file, file_content_base64 |-> b64],
               ConvertPdfToDocx(S0, input_file, b64, env, clock))

ConvertImageTool ==
    /\ last.op = "none"
    /\ \E input_file \in InputFiles, b64 \in Base64Contents, output_format \in TargetFormats,
       input_format \in {"none", "png"}, env \in ImageEnvs :
        Finish("convert_image",
               [input_file |-> input_file, file_content_base64 |-> b64,
                output_format |-> output_format, input_format |-> input_format],
               ConvertImage(S0, input_file, b64, output_format, input_format, env, clock))

Excel2Csv ==
    /\ last.op = "none"
    /\ \E input_file \in ExcelFiles, env \in ExcelEnvs :
        Finish("excel2csv", [input_file |-> input_file],
               ConvertExcelToCsv(S0, input_file, env, clock))

Html2Pdf ==
    /\ last.op = "none"
    /\ \E input_file \in InputFiles, html_content \in Texts, env \in HtmlPdfEnvs :
        Finish("html2pdf", [input_file |-> input_file, html_content |-> html_content],
               ConvertHtmlToPdf(S0, input_file, html_content, env, clock))

Html2Docx ==
    /\ last.op = "none"
    /\ \E input_file \in InputFiles, html_content \in Texts, env \in HtmlDocxEnvs :
        Finish("html2docx", [input_file |-> input_file, html_content |-> html_content],
               ConvertHtmlToDocx(S0, input_file, html_content, env, clock))

ConvertFileTool ==
    /\ last.op = "none"
    /\ \E input_file \in InputFiles, b64 \in Base64Contents, input_format \in SourceFormats,
       output_format \in FileTargetFormats :
        \E env \in FileEnvs(input_format, output_format) :
            Finish("convert_file",
                   [input_file |-> input_file, file_content_base64 |-> b64,
                    input_format |-> input_format, output_format |-> output_format],
                   ConvertFile(S0, input_file, b64, input_format, output_format, env, clock))

ConvertContentTool ==
    /\ last.op = "none"
    /\ \E b64 \in {"data"}, input_format \in SourceFormats, output_format \in FileTargetFormats :
        \E env \in FileEnvs(input_format, output_format) :
            Finish("convert_content",
                   [file_content_base64 |-> b64, input_format |-> input_format,
                    output_format |-> output_format],
                   ConvertContent(S0, b64, input_format, output_format, env, clock))

Docx2PdfContent ==
    /\ last.op = "none"
    /\ \E b64 \in {"data"}, env \in DocxEnvs :
        Finish("docx2pdf_content", [file_content_base64 |-> b64],
               ConvertDocxToPdfContent(S0, b64, env, clock))

Pdf2DocxContent ==
    /\ last.op = "none"
    /\ \E b64 \in Base64Contents, input_file \in InputFiles, env \in PdfEnvs :
        Finish("pdf2docx_content", [file_content_base64 |-> b64, input_file |-> input_file],
               ConvertPdfToDocxContent(S0, b64, input_file, env, clock))

Markdown2PdfContent ==
    /\ last.op = "none"
    /\ \E b64 \in {"data"}, env \in HtmlPdfEnvs :
        Finish("markdown2pdf_content", [file_content_base64 |-> b64],
               ConvertMarkdownToPdfContent(S0, b64, env, clock))

Markdown2PdfTool ==
    /\ last.op = "none"
    /\ \E markdown_text \in MarkdownTexts \ {PyNone}, arguments \in Texts, env \in MdPdfEnvs :
        Finish("markdown2pdf", [markdown_text |-> markdown_text, arguments |-> arguments],
               Markdown2Pdf(S0, markdown_text, arguments, env, clock))

Markdown2DocxTool ==
    /\ last.op = "none"
    /\ \E markdown_text \in MarkdownTexts \ {PyNone}, arguments \in Texts, env \in MdDocxEnvs :
        Finish("markdown2docx", [markdown_text |-> markdown_text, arguments |-> arguments],
               Markdown2Docx(S0, markdown_text, arguments, env, clock))

MarkdownConvertTool ==
    /\ last.op = "none"
    /\ \E output_format \in {"docx", "pdf", "DOCX", "txt"}, markdown_text \in Texts, content \in Texts :
        \E env \in IF Lower(output_format) = "pdf" THEN MdPdfEnvs ELSE MdDocxEnvs :
            Finish("markdown_convert",
                   [output_format |-> output_format, markdown_text |-> markdown_text,
                    content |-> content],
                   MarkdownConvert(S0, output_format, markdown_text, content, env, clock))

Next ==
    \/ Tick
    \/ Respond
    \/ Docx2Pdf
    \/ Pdf2Docx
    \/ ConvertImageTool
    \/ Excel2Csv
    \/ Html2Pdf
    \/ Html2Docx
    \/ ConvertFileTool
    \/ ConvertContentTool
    \/ Docx2PdfContent
    \/ Pdf2DocxContent
    \/ Markdown2PdfContent
    \/ Markdown2PdfTool
    \/ Markdown2DocxTool
    \/ MarkdownConvertTool

Spec == Init /\ [][Next]_vars

(* ====================================================================== *)
(* fix_json_format on its own                                             *)
(* ====================================================================== *)
\* All texts of at most n characters of chars.
RECURSIVE SeqsUpTo(_, _)
SeqsUpTo(chars, n) ==
    IF n = 0 THEN {<<>>}
    ELSE LET shorter == SeqsUpTo(chars, n - 1)
         IN  shorter \cup {Append(s, c) : s \in shorter, c \in chars}

\* json.dumps(x)[1:-1] with ensure_ascii off: the characters of a str as they
\* stand between the quotes of a JSON string.
JsonEncode(x) ==
    Replace(Replace(Replace(Replace(Replace(x, <<"\\">>, <<"\\", "\\">>),
                                    <<"\"">>, <<"\\", "\"">>),
                            <<"\n">>, <<"\\", "n">>),
                    <<"\r">>, <<"\\", "r">>),
            <<"\t">>, <<"\\", "t">>)

\* "<x>" as a JSON string.
JsonString(x) == <<"\"">> \o JsonEncode(x) \o <<"\"">>

\* {"<key>": <value text>}
Envelope(key, value) == <<"{", "\"", key, "\"", ":", " ">> \o value \o <<"}">>

\* {"<key1>": <value1>, "<key2>": <value2>}
Envelope2(key1, value1, key2, value2) ==
    <<"{", "\"", key1, "\"", ":", " ">> \o value1
        \o <<",", " ", "\"", key2, "\"", ":", " ">> \o value2 \o <<"}">>

\* {"arguments": "{\"markdown_text\": \"<x>\"}", "name": "a"}
NestedEnvelope(x) ==
    Envelope2("arguments", JsonString(Envelope("markdown_text", JsonString(x))),
              "name", JsonString(<<"a">>))

\* {"markdown_text": "<fragment>   with nothing after it.
Truncated(fragment) == <<"{">> \o StartMarker \o fragment

\* n opening brackets.
RECURSIVE Brackets(_)
Brackets(n) == IF n = 0 THEN <<>> ELSE <<"[">> \o Brackets(n - 1)

Chars == {"{", "}", "\"", "\\", "\n", " ", ":", "n", "a"}

PayloadChars == {"a", "\\", "n", "\n", "\"", " "}

Payloads == SeqsUpTo(PayloadChars, MaxPayload)

Fragments == SeqsUpTo(PayloadChars \ {"\""}, MaxPayload + 1)

\* The text of a value that is no str.
OtherValues ==
    {<<"5">>, <<"null">>, <<"[", "]">>, <<"[", "5", "]">>, <<"{", "}">>,
     <<"{", "\"", "name", "\"", ":", "5", "}">>}

Keys == {"markdown_text", "text", "arguments", "name"} \cup EscapedKeys

FixInputs ==
    SeqsUpTo(Chars, MaxLen)
    \cup {JsonString(x) : x \in Payloads}
    \cup {Envelope(k, JsonString(x)) : k \in Keys, x \in Payloads}
    \cup {Envelope(k, <<"\"">> \o x \o <<"\"">>) : k \in {"markdown_text", "text"}, x \in Payloads}
    \cup {Envelope(k, <<"\"">> \o JsonEncode(x) \o <<"\n", "\"">>) : k \in {"markdown_text", "text"}, x \in Payloads}
    \cup {<<" ">> \o Envelope("markdown_text", JsonString(x)) \o <<"\n">> : x \in Payloads}
    \cup {Envelope2(k, JsonString(<<"\\", "n">>), "markdown_text", JsonString(x)) :
              k \in Keys \ {"markdown_text"}, x \in Payloads}
    \cup {Envelope2("markdown_text", JsonString(x), k, JsonString(<<"a">>)) :
              k \in Keys \ {"markdown_text"}, x \in Payloads}
    \cup {Envelope(k, v) : k \in Keys, v \in OtherValues}
    \cup {Envelope2("name", v, "text", w) : v, w \in OtherValues}
    \cup {NestedEnvelope(x) : x \in Payloads}
    \cup {Envelope("markdown_text", JsonString(Envelope(k, JsonString(x)))) :
              k \in {"markdown_text", "text"}, x \in Payloads}
    \cup {Envelope("arguments", JsonString(Truncated(x))) : x \in Payloads}
    \cup {Truncated(r) : r \in Fragments}
    \cup {<<"{", "\"", k, "\"", ":">> \o Brackets(n) : k \in {"name", "markdown_text", "arguments"},
                                                     n \in 1..RecursionLimit}

FixInit ==
    /\ clock = 0
    /\ prevOut = {}
    /\ last = Idle
    /\ fix \in {FixCall(x) : x \in FixInputs}

\* corrected_text = fix_json_format(input_text)
FixOnce ==
    /\ fix.calls = 0
    /\ fix' = [fix EXCEPT !.calls = 1, !.once = FixJsonFormat(fix.text)]
    /\ UNCHANGED <<clock, prevOut, last>>

\* fix_json_format called again, on what it returned.
FixTwice ==
    /\ fix.calls = 1
    /\ fix' = [fix EXCEPT !.calls = 2, !.twice = FixJsonFormatValue(fix.once)]
    /\ UNCHANGED <<clock, prevOut, last>>

\* markdown2docx goes on with what fix_json_format returned: docx is the text
\* it has when its passes are over, where markdown2pdf has once.
FixRepaired ==
    /\ fix.calls >= 1
    /\ ~fix.repaired
    /\ fix' = [fix EXCEPT !.repaired = TRUE, !.docx = FurtherRepair(fix.once)]
    /\ UNCHANGED <<clock, prevOut, last>>

FixNext == FixOnce \/ FixTwice \/ FixRepaired

FixSpec == FixInit /\ [][FixNext]_vars

(* ====================================================================== *)
(* Properties of a finished request                                        *)
(* ====================================================================== *)
Done == last.op # "none"

Ev == last.fp.ev

Happened(step, outcome) == \E i \in DOMAIN Ev : Ev[i] = <<step, outcome>>

SuccessShape(r) == DOMAIN r = {"success", "output_file", "download_url"} /\ r.success = TRUE

FailureShape(r) == DOMAIN r = {"success", "error"} /\ r.success = FALSE

\* No rmtree and no os.remove raised during the request.
RemovalsWorked == ~Happened("rmtree", "fail") /\ ~Happened("remove", "fail")

\* The publisher reported failure (False) or raised.
PublishFailed == Happened("publish", "false") \/ Happened("publish", "raise")

\* Two input kinds are populated at once.
TwoInputKinds ==
    /\ "input_file" \in DOMAIN last.args
    /\ last.args.input_file # "none"
    /\ \/ "file_content_base64" \in DOMAIN last.args /\ last.args.file_content_base64 # "none"
       \/ "html_content" \in DOMAIN last.args /\ ~Falsy(last.args.html_content)

\* The request met none of the faults that belong to other properties: no
\* removal raised, one input kind was given, and the unbound temp_html_file
\* of pdf2docx was not reached.
OwnFault == RemovalsWorked /\ ~TwoInputKinds /\ ~Happened("nameerror", "temp_html_file")

C2_FailureLeavesNoWorkDir ==
    (Done /\ ~last.ret.success /\ OwnFault)
        => \A d \in DOMAIN last.fp.dirs : last.fp.dirs[d].st = "gone"

\* C3: every working directory a request made is removed exactly once before
\* the request returns, on the success path too, and rmtree is never called
\* on it again once it is gone.
C3_WorkDirRemovedExactlyOnce ==
    (Done /\ OwnFault)
        => \A d \in DOMAIN last.fp.dirs :
              last.fp.dirs[d].st = "gone" /\ last.fp.dirs[d].rm = 1

\* C4: every temp file a request made outside the working directory for a
\* downloaded input is tracked and gone when the request returns (stated for
\* the requests whose download succeeded and whose removals all worked).
C4_LooseTempFilesRemoved ==
    (Done /\ Happened("download", "ok") /\ OwnFault)
        => \A f \in DOMAIN last.fp.loose :
              last.fp.loose[f].tracked /\ last.fp.loose[f].st = "gone"

\* C5: a removal that fails during release is absorbed: a request whose output
\* was staged (and published where publication is performed) still returns
\* success.
C5_RemovalFailureAbsorbed ==
    (/\ Done
     /\ Happened("move", "ok")
     /\ ~PublishFailed
     /\ ~Happened("nameerror", "temp_html_file")
     /\ ~TwoInputKinds
     /\ ~RemovalsWorked)
        => last.ret.success

\* C6: a request that populates two input kinds is rejected with a failure
\* before any working directory or temp file is made and before any download
\* or capability runs.
C6_TwoInputKindsRejected ==
    (Done /\ TwoInputKinds)
        => /\ ~last.ret.success
           /\ last.fp.dirs = <<>>
           /\ last.fp.loose = <<>>
           /\ \A i \in DOMAIN Ev : Ev[i][1] \notin {"download", "capability"}

\* C7: when the capability returns without an error and without its output
\* file, the request returns a failure.
C7_MissingOutputIsFailure ==
    (Done /\ Happened("capability", "noout")) => ~last.ret.success

\* The extension of the format the request asks for.
TargetExt ==
    CASE last.op \in {"docx2pdf", "docx2pdf_content", "html2pdf", "markdown2pdf",
                      "markdown2pdf_content"} -> "pdf"
      [] last.op \in {"pdf2docx", "pdf2docx_content", "html2docx", "markdown2docx"} -> "docx"
      [] last.op = "excel2csv" -> "csv"
      [] OTHER -> Lower(last.args.output_format)

\* Every step the request performed succeeded, the capability among them.
AllStepsSucceeded ==
    /\ Happened("capability", "ok")
    /\ \A i \in DOMAIN Ev :
          \/ Ev[i][1] = "nameerror"
          \/ Ev[i][2] \in {"ok", "true"}

\* C8: when input resolution, the capability, staging and publication all
\* succeed, the request returns success with an artifact path that ends in
\* the extension of the target format.
C8_AllStepsOkIsSuccess ==
    (Done /\ AllStepsSucceeded)
        => /\ last.ret.success
           /\ last.ret.output_file.ext = TargetExt

Retryable == {"download", "capability", "publish"}

FailedStep(e) ==
    \/ e = <<"download", "fail">>
    \/ e[1] = "capability" /\ e[2] \in {"raise", "nonzero"}
    \/ e[1] = "publish" /\ e[2] \in {"false", "raise"}

DownloadErrors ==
    {"Error downloading file from URL", "Error downloading image from URL",
     "Error downloading excel from URL", "Error downloading HTML from URL",
     "Error converting HTML to PDF: download"}

\* C11: when the download of a remote input fails, the request returns a
\* failure whose message reports the download error, leaves no file in the
\* output directory, and does not download again.
C11_DownloadFailureReported ==
    (Done /\ Happened("download", "fail"))
        => /\ ~last.ret.success
           /\ last.ret.error \in DownloadErrors
           /\ last.fp.out = {}
           /\ CountEv(last.fp, "download") = 1

\* The convert_file request named an input and both formats.
FileRequest ==
    /\ last.op = "convert_file"
    /\ last.args.input_file # "none" \/ last.args.file_content_base64 # "none"
    /\ last.args.input_format # "none"
    /\ last.args.output_format # "none"

ConversionKey == <<Lower(last.args.input_format), Lower(last.args.output_format)>>

\* C12: convert_file hands a pair of the table to the capability the table
\* binds it to; a pair outside the table whose source is one of jpg, jpeg, png,
\* webp, gif, bmp, tiff to convert_image, with the target format as the caller
\* wrote it; every other pair gets a failure that names both formats, and
\* nothing is called.
C12_ConvertFileDispatch ==
    (Done /\ FileRequest) =>
        CASE ConversionMap(ConversionKey) # "none" ->
                 last.fp.route = <<[func |-> ConversionMap(ConversionKey), output_format |-> "none"]>>
          [] Lower(last.args.input_format) \in {"jpg", "jpeg", "png", "webp", "gif", "bmp", "tiff"} ->
                 last.fp.route = <<[func |-> "convert_image", output_format |-> last.args.output_format]>>
          [] OTHER ->
                 /\ last.ret = Failure("Unsupported conversion: " \o last.args.input_format
                                       \o " to " \o last.args.output_format)
                 /\ last.fp.route = <<>>
                 /\ Ev = <<>>

\* A png source with the target written "PNG", a pair the table does not
\* hold, converted by convert_image.
C12_Witness ==
    /\ Done
    /\ FileRequest
    /\ last.args.input_format = "png"
    /\ last.args.output_format = "PNG"
    /\ last.fp.route = <<[func |-> "convert_image", output_format |-> "PNG"]>>
    /\ last.ret.success

\* The request supplied no input at all.
NoInputSupplied ==
    /\ \A k \in DOMAIN last.args \cap {"input_file", "file_content_base64"} : last.args[k] = "none"
    /\ "html_content" \in DOMAIN last.args => last.args.html_content = PyNone

\* The convert_image request names a target format outside the supported set.
UnsupportedTarget ==
    /\ last.op = "convert_image"
    /\ last.args.output_format = "none" \/ Lower(last.args.output_format) \notin ValidFormats

\* C13: validation comes before input resolution: a request that supplies no
\* input, or names an unsupported target format, downloads nothing and makes
\* neither a temp file nor a working directory.
C13_ValidationFirst ==
    (/\ Done
     /\ last.op \in {"docx2pdf", "pdf2docx", "convert_image", "html2pdf", "html2docx"}
     /\ ~TwoInputKinds
     /\ NoInputSupplied \/ UnsupportedTarget)
        => /\ ~last.ret.success
           /\ ~Happened("download", "ok") /\ ~Happened("download", "fail")
           /\ last.fp.loose = <<>>
           /\ last.fp.dirs = <<>>

\* C14: a request is given an output path no other request was given: no
\* file that an earlier request left in the output directory is written
\* again.
C14_DistinctOutputPaths ==
    Done => last.fp.out \cap prevOut = {}

(* ---------------------------------------------------------------------- *)
\* C15: a text whose first character is neither an opening brace nor a
\* double quote comes back from fix_json_format exactly as it went in,
\* line breaks, backslashes and surrounding whitespace included.
PlainText(text) == ~StartsWith(text, <<"{">>) /\ ~StartsWith(text, <<"\"">>)

C15_PlainTextUnchanged ==
    (fix.calls >= 1 /\ PlainText(fix.text)) => fix.once = Str(fix.text)

(* ---------------------------------------------------------------------- *)
\* C16: for a text that is a well-formed JSON object with the key
\* markdown_text, fix_json_format returns exactly the value of that key,
\* whichever other keys the object has.
HasMarkdownText(text) ==
    LET parsed == JsonLoads(text)
    IN  parsed.k = "ok" /\ parsed.t = "dict" /\ HasKey(parsed, <<"markdown_text">>)

C16_MarkdownTextValue ==
    (fix.calls >= 1 /\ HasMarkdownText(fix.text))
        => fix.once = GetItem(JsonLoads(fix.text), <<"markdown_text">>)

\* The same, for the objects that spell the key without escapes.
C16_LiteralKey ==
    (fix.calls >= 1 /\ HasMarkdownText(fix.text) /\ Contains(fix.text, <<"\"", "markdown_text", "\"">>))
        => fix.once = GetItem(JsonLoads(fix.text), <<"markdown_text">>)

(* ---------------------------------------------------------------------- *)
\* C17: for every text x, fix_json_format returns x from the object whose
\* key arguments holds, as a string, the JSON encoding of an object whose key
\* markdown_text holds x.
C17_NestedEnvelope ==
    \A x \in Payloads :
        (fix.calls >= 1 /\ fix.text = NestedEnvelope(x)) => fix.once = Str(x)

(* ---------------------------------------------------------------------- *)
\* C18: for a text cut off inside the value of markdown_text, that is the
\* opening brace, the key, the colon and the opening quote followed by a
\* fragment with no closing quote or brace, fix_json_format returns the
\* fragment with its escape sequences turned into the characters they stand
\* for. Both ways of reading the escapes are accepted: as the four
\* replacements the function uses elsewhere, and as JSON reads them.
AsJsonString(fragment) == ScanString(fragment \o <<"\"">>, 1, <<>>)

Converted(fragment) ==
    {Str(ReplaceEscapes(fragment))}
        \cup (IF AsJsonString(fragment).k = "ok" THEN {Str(AsJsonString(fragment).s)} ELSE {})

C18_TruncatedFragment ==
    \A r \in Fragments :
        (fix.calls >= 1 /\ fix.text = Truncated(r)) => fix.once \in Converted(r)

(* ---------------------------------------------------------------------- *)
\* C19: fix_json_format applied to what fix_json_format returned gives the
\* same value again.
C19_Idempotent == fix.calls = 2 => fix.twice = fix.once

(* ---------------------------------------------------------------------- *)
\* C20: fix_json_format returns a value for every str, whatever it holds and
\* however deeply it nests, and never raises; when none of its stages
\* recovers anything, the value is the text it was given.
NothingRecovered(text) ==
    LET t1 == Strip(text)
    IN  /\ text # <<>>
        /\ ~PlainText(t1)
        /\ \A r \in {QuotedText(t1), MarkdownTextObject(t1), NestedArguments(t1),
                     ObjectFields(t1), FieldPatterns(t1), AnyPair(t1),
                     MarkerToLastQuote(t1), MarkerToBrace(t1), MarkerWindow(t1)} : ~r.done

C20_NeverRaises ==
    fix.calls >= 1 =>
        /\ fix.once.t # "exc"
        /\ NothingRecovered(fix.text) => fix.once = Str(fix.text)

\* The two halves of C20 on their own.
C20_ReturnsAValue == fix.calls >= 1 => fix.once.t # "exc"

C20_FallsBackToInput ==
    (fix.calls >= 1 /\ NothingRecovered(fix.text)) => fix.once = Str(fix.text)

(* ---------------------------------------------------------------------- *)
\* C21: whatever fix_json_format returns is a str, never None, a number, a
\* list or a dict, also for a well-formed object whose recognised key or only
\* key holds such a value.
C21_ResultIsStr ==
    (fix.calls >= 1 /\ fix.once.t # "exc") => fix.once.t = "str"

(* ---------------------------------------------------------------------- *)
\* C22: for a text that is a well-formed JSON object, fix_json_format
\* returns the value of the first of the keys markdown_text, text, content,
\* message, html_content, input_file that the object has, and the value of
\* the only key when it has none of them and exactly one key.
CleanObject(text) ==
    LET parsed == JsonLoads(text)
    IN  /\ parsed.k = "ok" /\ parsed.t = "dict"
        /\ FieldsIn(parsed) # {} \/ DictLen(parsed) = 1

PriorityValue(text) ==
    LET parsed == JsonLoads(text)
    IN  IF FieldsIn(parsed) # {}
        THEN GetItem(parsed, <<FieldOrder[Min(FieldsIn(parsed))]>>)
        ELSE FirstValue(parsed)

C22_PriorityOrder ==
    (fix.calls >= 1 /\ CleanObject(fix.text)) => fix.once = PriorityValue(fix.text)

\* The same for the objects whose string values hold no backslash and that
\* have no key arguments.
C22_WithoutBackslash ==
    (/\ fix.calls >= 1
     /\ CleanObject(fix.text)
     /\ \A i \in DOMAIN JsonLoads(fix.text).items :
          /\ "\\" \notin {JsonLoads(fix.text).items[i].val.s[n] : n \in DOMAIN JsonLoads(fix.text).items[i].val.s}
          /\ JsonLoads(fix.text).items[i].key # <<"arguments">>)
        => fix.once = PriorityValue(fix.text)

(* ---------------------------------------------------------------------- *)
\* The text with every raw line break written as the escape \n.
LineBreaksEscaped(text) == Replace(text, <<"\n">>, <<"\\", "n">>)

\* An object that is invalid JSON only because of raw line breaks in its
\* string values, and that has a key markdown_text holding a str.
RawLineBreaks(text) ==
    /\ Contains(text, <<"\n">>)
    /\ JsonLoads(text).k # "ok"
    /\ HasMarkdownText(LineBreaksEscaped(text))
    /\ GetItem(JsonLoads(LineBreaksEscaped(text)), <<"markdown_text">>).t = "str"

\* C23: for an object whose string values hold raw line breaks, which no
\* strict JSON parser accepts, fix_json_format returns the value of
\* markdown_text with the line breaks in it, not the text of the object.
C23_RawLineBreaks ==
    (fix.calls >= 1 /\ RawLineBreaks(fix.text))
        => fix.once = GetItem(JsonLoads(LineBreaksEscaped(fix.text)), <<"markdown_text">>)

\* The same for the values that hold no backslash.
C23_WithoutBackslash ==
    (fix.calls >= 1 /\ RawLineBreaks(fix.text) /\ ~Contains(fix.text, <<"\\">>))
        => fix.once = GetItem(JsonLoads(LineBreaksEscaped(fix.text)), <<"markdown_text">>)

C23_Reached == fix.calls >= 1 /\ RawLineBreaks(fix.text) /\ ~Contains(fix.text, <<"\\">>)

(* ---------------------------------------------------------------------- *)
\* An object text that json.loads rejects.
UncleanEnvelope(text) == StartsWith(Strip(text), <<"{">>) /\ JsonLoads(Strip(text)).k # "ok"

\* The pieces of a text.
Pieces(text) == {SubSeq(text, i, j) : i \in 1..(Len(text) + 1), j \in 0..Len(text)}

\* json.loads of the piece between quotes, its raw line breaks escaped.
Decoded(c) == JsonLoads(<<"\"">> \o EscapeControl(c) \o <<"\"">>)

\* C24: a text that fix_json_format extracts from an object that did not
\* parse has had the escapes \n, \r, \t and \" replaced, in this order, by
\* the characters they stand for: it is a piece of the input after these
\* replacements or after JSON decoding, never a piece with them left in.
C24_EscapesConverted ==
    (fix.calls >= 1 /\ UncleanEnvelope(fix.text) /\ fix.once.t = "str" /\ fix.once.s # Strip(fix.text))
        => \E c \in Pieces(fix.text) :
              \/ fix.once.s = ReplaceEscapes(c)
              \/ /\ Decoded(c).k = "ok" /\ Decoded(c).t = "str"
                 /\ fix.once.s \in {Decoded(c).s, ReplaceEscapes(Decoded(c).s)}

(* ---------------------------------------------------------------------- *)
\* C25: for an object that did not parse and that holds the marker
\* "markdown_text": ", fix_json_format returns what the window of lines
\* 615-661 finds: the text from the marker to the first "} , else to the
\* first ", , else to a quote, else the rest without trailing whitespace;
\* the field patterns of lines 517-538 come after it.
C25_WindowFirst ==
    (fix.calls >= 1 /\ UncleanEnvelope(fix.text) /\ Contains(Strip(fix.text), StartMarker))
        => fix.once = MarkerWindow(Strip(fix.text)).v

(* ---------------------------------------------------------------------- *)
\* upload_to_static_server was called during the request.
Published == \E i \in DOMAIN Ev : Ev[i][1] = "publish"

\* The file was put on the remote host and the remote stat found it.
Uploaded == Happened("put", "ok") /\ Happened("stat", "ok")

\* C26: upload_to_static_server returns True only after put completed and
\* the remote stat found the file; in every other case (local file missing
\* or unreadable, no connection, put failed, remote file absent) it returns
\* False or raises, and the request returns a failure.
C26_AllOrNothing ==
    (Done /\ Published)
        => /\ Happened("publish", "true") => Uploaded
           /\ ~Uploaded => (PublishFailed /\ ~last.ret.success /\ ~last.escaped)

\* The put completed but the remote stat did not find the file, and
\* markdown2docx returned a failure.
C26_Witness ==
    /\ Done
    /\ last.op = "markdown2docx"
    /\ Happened("put", "ok")
    /\ Happened("stat", "missing")
    /\ Happened("publish", "false")
    /\ ~last.ret.success

(* ---------------------------------------------------------------------- *)
\* convert_file was called with a pair of its conversion_map and with an
\* input of one of the two kinds.
InConversionMap ==
    /\ last.op = "convert_file"
    /\ last.args.input_file # "none" \/ last.args.file_content_base64 # "none"
    /\ last.args.input_format # "none" /\ last.args.output_format # "none"
    /\ ConversionMap(<<Lower(last.args.input_format), Lower(last.args.output_format)>>) # "none"

\* C27: for every pair of the conversion_map and for both input kinds
\* (input_file, file_content_base64), convert_file calls the mapped function
\* with that input and returns what it returns; the call itself never fails
\* before the function runs.
C27_MappedFunctionRuns ==
    (Done /\ InConversionMap)
        => ~Happened("typeerror", "file_content_base64")

(* ---------------------------------------------------------------------- *)
\* C28: for the same text, markdown2docx ends with the text markdown2pdf has:
\* the passes of markdown2docx leave what fix_json_format returned as it is,
\* so both tools write the same content to their input file.
C28_SameText ==
    fix.repaired => fix.docx = fix.once

(* ---------------------------------------------------------------------- *)
\* C29: when a request returns a failure, no file that the request produced
\* is left in the output directory.
C29_FailureLeavesNoOutput ==
    (Done /\ ~last.ret.success) => last.fp.out = {}

(* ---------------------------------------------------------------------- *)
\* The text markdown2pdf and markdown2docx recovered from their input: what
\* fix_json_format returned, after the passes of markdown2docx.
Recovered ==
    LET input_text == InputText(last.args.markdown_text, last.args.arguments)
    IN  IF input_text = PyNone THEN PyNone
        ELSE IF last.op = "markdown2docx" THEN FurtherRepair(FixJsonFormat(input_text.s))
        ELSE FixJsonFormat(input_text.s)

BlankRecovered ==
    /\ Done
    /\ last.op \in {"markdown2pdf", "markdown2docx"}
    /\ Recovered.t = "str"
    /\ Strip(Recovered.s) = <<>>

\* C30: in markdown2pdf and markdown2docx a recovered text that is empty or
\* only whitespace gives a failure, with no working directory created and no
\* capability called.
C30_BlankTextFails ==
    BlankRecovered
        => /\ ~last.ret.success
           /\ last.fp.dirs = <<>>
           /\ Ev = <<>>

\* markdown2docx was given an object whose markdown_text holds, as a string,
\* an object whose markdown_text is one blank, and returned a failure.
C30_Witness ==
    /\ BlankRecovered
    /\ last.op = "markdown2docx"
    /\ Len(last.args.markdown_text.s) > 10
    /\ FixJsonFormat(last.args.markdown_text.s) # Recovered
    /\ ~last.ret.success

====
